---------------------------- MODULE Spec2Model ----------------------------
(***************************************************************************)
(* Model of the music-match service (src/app): the string normaliser and   *)
(* relevance scorer of SpotifyService, the result fusion of search_mixed,  *)
(* the SongLink resolvers and the HTTP handlers of main.py.                *)
(*                                                                         *)
(* Python strings are sequences of one-character strings.  Floating point  *)
(* scores are kept as integers: relevance scores in thousandths, the       *)
(* confidence score in hundredths.  A Python call that may raise returns   *)
(* [raised |-> FALSE, value |-> v] or [raised |-> TRUE, exc |-> e].        *)
(***************************************************************************)
EXTENDS Integers, Sequences, FiniteSets, TLC

VARIABLES
  request,     \* the request being answered (a record with field op)
  calls,       \* the provider calls the handler made, in order, with their outcomes
  response,    \* the handler's answer: a status and a body, or an error detail
  cs_in,       \* clean_string harness: the input string
  cs_out,      \* clean_string harness: the strings computed so far
  sc_in,       \* calculate_relevance_score harness: <<query, title, artist>>
  sc_out       \* calculate_relevance_score harness: <<>>, then <<the score>>

vars == <<request, calls, response, cs_in, cs_out, sc_in, sc_out>>
svcVars == <<request, calls, response>>
csVars == <<cs_in, cs_out>>
scVars == <<sc_in, sc_out>>

\* None where a string is expected, and None where a model object is expected
None == "None"
NoObject == [none |-> TRUE]

Ok(v) == [raised |-> FALSE, value |-> v]
Raise(e) == [raised |-> TRUE, exc |-> e]

Min(a, b) == IF a <= b THEN a ELSE b
Max(a, b) == IF a >= b THEN a ELSE b

RECURSIVE Concat(_)
Concat(ss) == IF ss = <<>> THEN <<>> ELSE Head(ss) \o Concat(Tail(ss))

(***************************************************************************)
(* Characters.                                                             *)
(***************************************************************************)
Whitespace == {" ", "\n", "\t"}

LowerMap ==
  [c \in {"A", "B", "E", "F", "G", "I", "N", "R", "T", "U", "X"} |->
     CASE c = "A" -> "a" [] c = "B" -> "b" [] c = "E" -> "e" [] c = "F" -> "f"
       [] c = "G" -> "g" [] c = "I" -> "i" [] c = "N" -> "n" [] c = "R" -> "r"
       [] c = "T" -> "t" [] c = "U" -> "u" [] c = "X" -> "x"]

LowerChar(c) == IF c \in DOMAIN LowerMap THEN LowerMap[c] ELSE c

\* str.lower()
Lower(s) == [i \in 1..Len(s) |-> LowerChar(s[i])]

\* str.strip(): leading and trailing whitespace removed
RECURSIVE LStrip(_)
LStrip(s) == IF s # <<>> /\ Head(s) \in Whitespace THEN LStrip(Tail(s)) ELSE s

RECURSIVE RStrip(_)
RStrip(s) ==
  IF s # <<>> /\ s[Len(s)] \in Whitespace THEN RStrip(SubSeq(s, 1, Len(s) - 1)) ELSE s

Strip(s) == RStrip(LStrip(s))

(***************************************************************************)
(* The two regular expressions of clean_string.                            *)
(***************************************************************************)
FeatDot == <<"(", "f", "e", "a", "t", ".">>
Featuring == <<"(", "f", "e", "a", "t", "u", "r", "i", "n", "g">>

\* the literal lit matches s at position i, ignoring case (re.IGNORECASE)
LitAt(s, i, lit) ==
  /\ i + Len(lit) - 1 <= Len(s)
  /\ \A k \in 1..Len(lit) : LowerChar(s[i + k - 1]) = lit[k]

\* ".*?\)" from position from: the index of the first ")" at or after from that
\* "." can reach ("." matches any character except a newline), or 0
RECURSIVE LazyClose(_, _)
LazyClose(s, from) ==
  IF from > Len(s) THEN 0
  ELSE IF s[from] = ")" THEN from
  ELSE IF s[from] = "\n" THEN 0
  ELSE LazyClose(s, from + 1)

\* the index where a match of \(feat\..*?\)|\(featuring.*?\) starting at i ends, or 0
FeatMatchEnd(s, i) ==
  LET e1 == IF LitAt(s, i, FeatDot) THEN LazyClose(s, i + Len(FeatDot)) ELSE 0
      e2 == IF LitAt(s, i, Featuring) THEN LazyClose(s, i + Len(Featuring)) ELSE 0
  IN IF e1 # 0 THEN e1 ELSE e2

\* re.sub(pattern, '', s): the non-overlapping matches, leftmost first, removed
RECURSIVE SubFeatFrom(_, _)
SubFeatFrom(s, i) ==
  IF i > Len(s) THEN <<>>
  ELSE LET e == FeatMatchEnd(s, i)
       IN IF e # 0 THEN SubFeatFrom(s, e + 1)
          ELSE <<s[i]>> \o SubFeatFrom(s, i + 1)

SubFeat(s) == SubFeatFrom(s, 1)

\* re.sub(r'\s+', ' ', s): every maximal run of whitespace becomes one space
RECURSIVE SubSpaces(_)
SubSpaces(s) ==
  IF s = <<>> THEN <<>>
  ELSE IF Head(s) \in Whitespace
       THEN <<" ">> \o SubSpaces(LStrip(s))
       ELSE <<Head(s)>> \o SubSpaces(Tail(s))

clean_string(s) == Lower(Strip(SubSpaces(SubFeat(s))))


(***************************************************************************)
(* fuzz.ratio of fuzzywuzzy, on its difflib.SequenceMatcher backend:       *)
(* 100 for equal strings, 0 when either is empty, otherwise                *)
(* int(round(100 * 2*M/T)) with M the size of the matching blocks and T    *)
(* the two lengths together.                                               *)
(***************************************************************************)
\* a[i..i+k-1] = b[j..j+k-1]
BlockAt(a, b, i, j, k) == \A d \in 0..(k - 1) : a[i + d] = b[j + d]

\* SequenceMatcher.find_longest_match on a[alo..ahi-1], b[blo..bhi-1]: the
\* longest common block, of those the one starting earliest in a, of those the
\* one starting earliest in b; <<alo, blo, 0>> when there is none
find_longest_match(a, b, alo, ahi, blo, bhi) ==
  LET blocks == {m \in (alo..(ahi - 1)) \X (blo..(bhi - 1)) \X (1..Min(ahi - alo, bhi - blo)) :
                   /\ m[1] + m[3] <= ahi
                   /\ m[2] + m[3] <= bhi
                   /\ BlockAt(a, b, m[1], m[2], m[3])}
      Better(m, n) == \/ m[3] > n[3]
                      \/ m[3] = n[3] /\ m[1] < n[1]
                      \/ m[3] = n[3] /\ m[1] = n[1] /\ m[2] <= n[2]
  IN IF blocks = {} THEN <<alo, blo, 0>>
     ELSE CHOOSE m \in blocks : \A n \in blocks : Better(m, n)

\* the total size of SequenceMatcher.get_matching_blocks
RECURSIVE MatchSize(_, _, _, _, _, _)
MatchSize(a, b, alo, ahi, blo, bhi) ==
  IF alo >= ahi \/ blo >= bhi THEN 0
  ELSE LET m == find_longest_match(a, b, alo, ahi, blo, bhi)
       IN IF m[3] = 0 THEN 0
          ELSE m[3] + MatchSize(a, b, alo, m[1], blo, m[2])
                    + MatchSize(a, b, m[1] + m[3], ahi, m[2] + m[3], bhi)

\* int(round(100 * num / den)), Python's round: a tie goes to the even integer
RoundPercent(num, den) ==
  LET q == (100 * num) \div den
      r == (100 * num) % den
  IN IF 2 * r > den THEN q + 1
     ELSE IF 2 * r < den THEN q
     ELSE IF q % 2 = 0 THEN q ELSE q + 1

fuzz_ratio(s1, s2) ==
  IF s1 = s2 THEN 100
  ELSE IF Len(s1) = 0 \/ Len(s2) = 0 THEN 0
  ELSE RoundPercent(2 * MatchSize(s1, s2, 1, Len(s1) + 1, 1, Len(s2) + 1),
                    Len(s1) + Len(s2))

(***************************************************************************)
(* SpotifyService.calculate_relevance_score, in thousandths.               *)
(***************************************************************************)
\* Python's "a in b" on strings
IsSubstring(a, b) ==
  \E i \in 1..(Len(b) - Len(a) + 1) : SubSeq(b, i, i + Len(a) - 1) = a

\* the sum before the clamp
RawScore(query, title, artist) ==
  LET query_clean  == clean_string(query)
      title_clean  == clean_string(title)
      artist_clean == clean_string(artist)
      title_exact_match == IsSubstring(query_clean, title_clean)
                             \/ IsSubstring(title_clean, query_clean)
      artist_match      == IsSubstring(query_clean, artist_clean)
                             \/ IsSubstring(artist_clean, query_clean)
      title_fuzzy    == fuzz_ratio(query_clean, title_clean)
      artist_fuzzy   == fuzz_ratio(query_clean, artist_clean)
      combined_fuzzy == fuzz_ratio(query_clean, title_clean \o <<" ">> \o artist_clean)
  IN (IF title_exact_match THEN 500 ELSE 0)
       + (IF artist_match THEN 300 ELSE 0)
       + (title_fuzzy * 4 + artist_fuzzy * 2 + combined_fuzzy * 3)

\* variant for C7: the sum is returned as it is, not clamped
calculate_relevance_score_unclamped(query, title, artist) ==
  RawScore(query, title, artist)

calculate_relevance_score(query, title, artist) ==
  Min(1000, RawScore(query, title, artist))


(***************************************************************************)
(* Bounds and input sets.                                                  *)
(***************************************************************************)
MinLimit == 2    \* the request limits run from -MinLimit ...
MaxLimit == 14   \* ... to MaxLimit
MaxPieces == 5   \* clean_string inputs are up to MaxPieces pieces long
MaxApply == 2    \* clean_string is applied up to MaxApply times in a row

Limits == (0 - MinLimit)..MaxLimit

sAB == <<"a", "b">>
sB == <<"b">>
sBA == <<"b", "a">>
sXB == <<"x", "b">>
sXX == <<"x", "x">>
sABfeat == <<"A", "b", " ", "(", "f", "e", "a", "t", ".", " ", "x", ")">>

Queries == {sAB, sXB}

\* what the catalog holds: a name and the names of the artists, first one first.
\* For the query "ab" the scores are 1.0 and 0.287 (tracks), 1.0 and 0.733
\* (albums); for "xb" they are 0.387 and 0.387 (tracks), 0.387 and 1.0 (albums).
TrackCatalog == {[name |-> sAB, artists |-> <<sXX>>],
                 [name |-> sBA, artists |-> <<sXX, sB>>]}
AlbumCatalog == {[name |-> sABfeat, artists |-> <<sXX>>],
                 [name |-> sXB, artists |-> <<sB>>]}

SearchErrors == {"SpotifyException", "ConnectionError"}

\* a track object of the catalog provider; ids are opaque, here the position
TrackObject(i, c) ==
  [id |-> "t" \o ToString(i), name |-> c.name, artists |-> c.artists,
   album |-> [name |-> sXX, images |-> <<>>], duration_ms |-> 1000,
   isrc |-> None, url |-> "https://open.spotify.com/track/t" \o ToString(i),
   preview_url |-> None]

AlbumObject(i, c) ==
  [id |-> "a" \o ToString(i), name |-> c.name, artists |-> c.artists,
   images |-> <<"img">>, total_tracks |-> 2, release_date |-> "2020",
   url |-> "https://open.spotify.com/album/a" \o ToString(i)]

\* spotify.search(q, type, limit) answers at most limit items, or raises
TrackLists(n) ==
  UNION {{[i \in 1..k |-> TrackObject(i, cs[i])] : cs \in [1..k -> TrackCatalog]} : k \in 0..n}
AlbumLists(n) ==
  UNION {{[i \in 1..k |-> AlbumObject(i, cs[i])] : cs \in [1..k -> AlbumCatalog]} : k \in 0..n}

TrackSearchOutcomes(n) ==
  {Ok(items) : items \in TrackLists(n)} \cup {Raise(e) : e \in SearchErrors}
AlbumSearchOutcomes(n) ==
  {Ok(items) : items \in AlbumLists(n)} \cup {Raise(e) : e \in SearchErrors}

(***************************************************************************)
(* SpotifyService: the projection to metadata and search_mixed.            *)
(***************************************************************************)
\* ", ".join(names)
RECURSIVE JoinNames(_)
JoinNames(names) ==
  IF names = <<>> THEN <<>>
  ELSE IF Len(names) = 1 THEN names[1]
  ELSE names[1] \o <<",", " ">> \o JoinNames(Tail(names))

TrackMetadata(track) ==
  [title |-> track.name,
   artist |-> JoinNames(track.artists),
   album |-> track.album.name,
   cover_image |-> IF track.album.images # <<>> THEN track.album.images[1] ELSE None,
   duration_ms |-> track.duration_ms,
   isrc |-> track.isrc,
   spotify_id |-> track.id,
   spotify_url |-> track.url,
   preview_url |-> track.preview_url,
   content_type |-> "track"]

AlbumMetadata(album) ==
  [title |-> album.name,
   artist |-> JoinNames(album.artists),
   cover_image |-> IF album.images # <<>> THEN album.images[1] ELSE None,
   total_tracks |-> album.total_tracks,
   release_date |-> album.release_date,
   spotify_id |-> album.id,
   spotify_url |-> album.url,
   content_type |-> "album"]

\* variant for C9: half the limit, rounded up
TrackLimit_rounded_up(limit) == Max(5, (limit + 1) \div 2)

\* the limits search_mixed passes to the two searches (// rounds down)
TrackLimit(limit) == Max(5, limit \div 2)
\* variant for C11: the album search is asked for half the limit, like the
\* track search
AlbumLimit_halved(limit) == Max(3, limit \div 2)

AlbumLimit(limit) == Max(3, limit \div 3)

\* calculate_relevance_score on the queries and catalog entries of the model,
\* computed once
ScoreArgs ==
  {<<q, c.name, c.artists[1]>> : q \in Queries, c \in TrackCatalog \cup AlbumCatalog}
ScoreTable == [x \in ScoreArgs |-> calculate_relevance_score(x[1], x[2], x[3])]
Relevance(query, title, artist) == ScoreTable[<<query, title, artist>>]

\* one (metadata, relevance) pair of mixed_results
ScoredTrack(query, track) ==
  <<TrackMetadata(track), Relevance(query, track.name, track.artists[1])>>
ScoredAlbum(query, album) ==
  <<AlbumMetadata(album), Relevance(query, album.name, album.artists[1])>>

\* mixed_results before the sort: the tracks, then the albums
MixedResults(query, tracks, albums) ==
  [i \in 1..Len(tracks) |-> ScoredTrack(query, tracks[i])]
    \o [i \in 1..Len(albums) |-> ScoredAlbum(query, albums[i])]

\* variant for C1: x placed ahead of the pairs of its own relevance, as a sort
\* that orders ascending and then reverses the list does
InsertByRelevance_ties_reversed(sorted, x) ==
  LET ahead == {i \in 1..Len(sorted) : sorted[i][2] > x[2]}
      n == IF ahead = {} THEN 0 ELSE CHOOSE i \in ahead : \A j \in ahead : j <= i
  IN SubSeq(sorted, 1, n) \o <<x>> \o SubSeq(sorted, n + 1, Len(sorted))

\* x placed behind every pair whose relevance is at least its own
InsertByRelevance(sorted, x) ==
  LET ahead == {i \in 1..Len(sorted) : sorted[i][2] >= x[2]}
      n == IF ahead = {} THEN 0 ELSE CHOOSE i \in ahead : \A j \in ahead : j <= i
  IN SubSeq(sorted, 1, n) \o <<x>> \o SubSeq(sorted, n + 1, Len(sorted))

\* list.sort(key=lambda x: x[1], reverse=True): stable, highest relevance first
RECURSIVE SortByRelevance(_)
SortByRelevance(pairs) ==
  IF pairs = <<>> THEN <<>>
  ELSE InsertByRelevance(SortByRelevance(SubSeq(pairs, 1, Len(pairs) - 1)),
                         pairs[Len(pairs)])

\* variant for C2: seq[:limit + 1]
SliceTo_one_more(seq, limit) ==
  IF limit + 1 >= 0 THEN SubSeq(seq, 1, Min(limit + 1, Len(seq)))
  ELSE SubSeq(seq, 1, Max(0, Len(seq) + limit + 1))

\* seq[:limit]
SliceTo(seq, limit) ==
  IF limit >= 0 THEN SubSeq(seq, 1, Min(limit, Len(seq)))
  ELSE SubSeq(seq, 1, Max(0, Len(seq) + limit))

\* the body of search_mixed after the two searches answered
FuseResults(query, limit, tracks, albums) ==
  LET sorted == SortByRelevance(MixedResults(query, tracks, albums))
      top == SliceTo(sorted, limit)
  IN [i \in 1..Len(top) |-> top[i][1]]

\* the provider calls search_mixed makes: the album search only once the track
\* search has answered
SearchCalls(query, limit, tr, al) ==
  LET c1 == [api |-> "search", q |-> query, type |-> "track",
             limit |-> TrackLimit(limit), outcome |-> tr]
      c2 == [api |-> "search", q |-> query, type |-> "album",
             limit |-> AlbumLimit(limit), outcome |-> al]
  IN IF tr.raised THEN <<c1>> ELSE <<c1, c2>>

\* variant for C3: a failed search counts as one that found nothing
search_mixed_partial(query, limit, tr, al) ==
  Ok(FuseResults(query, limit,
                 IF tr.raised THEN <<>> ELSE tr.value,
                 IF al.raised THEN <<>> ELSE al.value))

\* search_mixed: any exception is logged and raised again
search_mixed(query, limit, tr, al) ==
  IF tr.raised THEN Raise(tr.exc)
  ELSE IF al.raised THEN Raise(al.exc)
  ELSE Ok(FuseResults(query, limit, tr.value, al.value))



(***************************************************************************)
(* models.py.  config.py imports pydantic_settings, so the models are      *)
(* pydantic 2 models: a field annotated Optional[...] with no default is   *)
(* required (it may be None, it may not be left out), and a field with a   *)
(* default may be left out.                                                *)
(***************************************************************************)
DSPLinksFields ==
  {"spotify", "apple_music", "youtube_music", "deezer", "soundcloud", "amazon_music", "tidal"}

\* DSPLinks(**kw): every field is required
DSPLinks(kw) ==
  IF DSPLinksFields \subseteq DOMAIN kw
  THEN Ok([f \in DSPLinksFields |-> kw[f]])
  ELSE Raise("ValidationError")

\* PlatformInfo(url=..., native_app_uri=...): every field has a default
PlatformInfo(url, native_app_uri) ==
  [url |-> url, native_app_uri |-> native_app_uri, country |-> "US"]

DetailedFields ==
  {"spotify", "apple_music", "youtube_music", "youtube", "deezer", "soundcloud",
   "amazon_music", "tidal", "pandora"}

\* DetailedPlatformLinks(**kw): every field defaults to None
DetailedPlatformLinks(kw) ==
  [f \in DetailedFields |-> IF f \in DOMAIN kw THEN kw[f] ELSE NoObject]

(***************************************************************************)
(* The link provider: what requests.get(api_url, timeout=10) does.         *)
(***************************************************************************)
ProviderKeys ==
  {"spotify", "appleMusic", "youtubeMusic", "deezer", "soundcloud", "amazonMusic", "tidal"}

\* one entry of linksByPlatform: with both keys, without the native URI, or
\* without either
EntryKinds == {"full", "url", "bare"}

LinkEntry(k, kind) ==
  IF kind = "full"
  THEN [entityUniqueId |-> k, url |-> "https://" \o k,
        nativeAppUriMobile |-> "app://" \o k]
  ELSE IF kind = "url" THEN [entityUniqueId |-> k, url |-> "https://" \o k]
  ELSE [entityUniqueId |-> k]
\* (the URLs of the link provider are never empty strings)

\* the JSON documents of a 200 answer: linksByPlatform over the platforms of one
\* of keysets, with or without pageUrl, or a document with neither key
LinkDocuments(keysets) ==
  {[entityUniqueId |-> "e", linksByPlatform |-> [k \in ks |-> LinkEntry(k, kind)]] :
     ks \in keysets, kind \in EntryKinds}
    \cup {[entityUniqueId |-> "e", linksByPlatform |-> [k \in ks |-> LinkEntry(k, "full")],
            pageUrl |-> "https://song.link/s/page"] : ks \in {{}, ProviderKeys} \cap keysets}
    \cup {[entityUniqueId |-> "e"]}

\* requests.get(api_url, timeout=10): an answer with a status, or an exception
\* (a timeout is one)
LinkOutcomesOver(keysets) ==
  {[kind |-> "response", status_code |-> 200, json |-> d] : d \in LinkDocuments(keysets)}
    \cup {[kind |-> "response", status_code |-> c] : c \in {404, 500}}
    \cup {[kind |-> "exception", exc |-> e] : e \in {"ConnectionError", "Timeout"}}

LinkOutcomes == LinkOutcomesOver(SUBSET ProviderKeys)
PageOutcomes == LinkOutcomesOver({{}, ProviderKeys})

LinkFailed(o) == o.kind = "exception" \/ o.status_code # 200

\* dict.get(key, default)
Get(d, key, default) == IF key \in DOMAIN d THEN d[key] ELSE default

(***************************************************************************)
(* SongLinkService.                                                        *)
(***************************************************************************)
\* the try block of get_platform_links
PlatformLinksTry(spotify_url, o) ==
  IF o.kind = "exception" THEN Raise(o.exc)
  ELSE IF o.status_code # 200 THEN DSPLinks([spotify |-> spotify_url])
  ELSE LET links == Get(o.json, "linksByPlatform", <<>>)
           url(k) == Get(Get(links, k, <<>>), "url", None)
       IN DSPLinks([spotify |-> Get(Get(links, "spotify", <<>>), "url", spotify_url),
                    apple_music |-> url("appleMusic"),
                    youtube_music |-> url("youtubeMusic"),
                    deezer |-> url("deezer"),
                    soundcloud |-> url("soundcloud"),
                    amazon_music |-> url("amazonMusic"),
                    tidal |-> url("tidal")])

\* get_platform_links: the except block builds DSPLinks(spotify=spotify_url) again
get_platform_links(spotify_url, o) ==
  LET body == PlatformLinksTry(spotify_url, o)
  IN IF body.raised THEN DSPLinks([spotify |-> spotify_url]) ELSE body

\* the try block of get_detailed_platform_data
DetailedTry(spotify_url, o) ==
  IF o.kind = "exception" THEN Raise(o.exc)
  ELSE IF o.status_code # 200
  THEN Ok(DetailedPlatformLinks([spotify |-> PlatformInfo(spotify_url, None)]))
  ELSE LET links == Get(o.json, "linksByPlatform", <<>>)
           info(k) == PlatformInfo(Get(Get(links, k, <<>>), "url", None),
                                   Get(Get(links, k, <<>>), "nativeAppUriMobile", None))
       IN Ok(DetailedPlatformLinks([spotify |-> info("spotify"),
                                    apple_music |-> info("appleMusic"),
                                    youtube_music |-> info("youtubeMusic"),
                                    deezer |-> info("deezer"),
                                    amazon_music |-> info("amazonMusic"),
                                    tidal |-> info("tidal")]))

get_detailed_platform_data(spotify_url, o) ==
  LET body == DetailedTry(spotify_url, o)
  IN IF body.raised
     THEN Ok(DetailedPlatformLinks([spotify |-> PlatformInfo(spotify_url, None)]))
     ELSE body

\* f"https://song.link/{spotify_url}"
SongLinkPage(spotify_url) == "https://song.link/" \o spotify_url

get_songlink_page_url(spotify_url, o) ==
  IF o.kind = "exception" THEN Ok(SongLinkPage(spotify_url))
  ELSE IF o.status_code = 200
  THEN Ok(Get(o.json, "pageUrl", SongLinkPage(spotify_url)))
  ELSE Ok(SongLinkPage(spotify_url))


(***************************************************************************)
(* SpotifyService: test_connection and the metadata lookups.  cat is what  *)
(* the catalog provider did: Ok(object) or Raise(cause).                   *)
(***************************************************************************)
test_connection(cat) == IF cat.raised THEN FALSE ELSE TRUE

get_track_metadata(cat) == IF cat.raised THEN Raise(cat.exc) ELSE Ok(TrackMetadata(cat.value))

get_album_metadata(cat) == IF cat.raised THEN Raise(cat.exc) ELSE Ok(AlbumMetadata(cat.value))

TrackLookups ==
  {Ok(TrackObject(1, c)) : c \in TrackCatalog} \cup {Raise(e) : e \in SearchErrors}
AlbumLookups ==
  {Ok(AlbumObject(1, c)) : c \in AlbumCatalog} \cup {Raise(e) : e \in SearchErrors}

(***************************************************************************)
(* main.py: the handlers.  Each answers [status, body] or, for an          *)
(* HTTPException, [status, detail].                                        *)
(***************************************************************************)
HTTPException(status_code, detail) == [status |-> status_code, detail |-> detail]

\* GET /health
health_check(cat) ==
  LET spotify_status == test_connection(cat)
  IN [status |-> 200,
      body |-> [status |-> "healthy",
                services |-> [spotify |-> IF spotify_status THEN "up" ELSE "down",
                              songlink |-> "up"]]]

\* POST /search
search_music(query, limit, tr, al) ==
  LET results == search_mixed(query, limit, tr, al)
  IN IF results.raised
     THEN HTTPException(500, "Search failed: " \o results.exc)
     ELSE [status |-> 200,
           body |-> [query |-> query,
                     total_results |-> Len(results.value),
                     results |-> results.value]]

\* "if link": None and the empty string are false
Truthy(link) == link # None /\ link # ""

\* variant for C6: the spotify link is counted with the others
ConfidenceScore_counts_spotify(platform_links) ==
  LET platform_count == Cardinality({f \in DSPLinksFields : Truthy(platform_links[f])})
  IN Min(95, 50 + platform_count * 8)

\* min(0.95, 0.5 + platform_count * 0.08), in hundredths
ConfidenceScore(platform_links) ==
  LET counted == <<platform_links.apple_music, platform_links.youtube_music,
                   platform_links.deezer, platform_links.amazon_music,
                   platform_links.tidal, platform_links.soundcloud>>
      platform_count == Cardinality({i \in 1..Len(counted) : Truthy(counted[i])})
  IN Min(95, 50 + platform_count * 8)

\* POST /match/{spotify_id}
match_across_platforms(content_type, cat, link) ==
  LET metadata == IF content_type = "track" THEN get_track_metadata(cat)
                  ELSE get_album_metadata(cat)
  IN IF metadata.raised
     THEN HTTPException(500, "Matching failed: " \o metadata.exc)
     ELSE LET platform_links == get_platform_links(metadata.value.spotify_url, link)
          IN IF platform_links.raised
             THEN HTTPException(500, "Matching failed: " \o platform_links.exc)
             ELSE [status |-> 200,
                   body |-> [metadata |-> metadata.value,
                             dsp_links |-> platform_links.value,
                             confidence_score |-> ConfidenceScore(platform_links.value),
                             content_type |-> content_type]]

\* GET /landing/{spotify_id}
get_landing_page_data(spotify_id, cat, link, page) ==
  LET metadata == get_track_metadata(cat)
  IN IF metadata.raised
     THEN HTTPException(500, "Landing page data failed: " \o metadata.exc)
     ELSE LET m == metadata.value
              platform_data == get_detailed_platform_data(m.spotify_url, link)
              songlink_page == get_songlink_page_url(m.spotify_url, page)
          IN [status |-> 200,
              body |-> [title |-> m.title, artist |-> m.artist, album |-> m.album,
                        thumbnail_small |-> m.cover_image,
                        thumbnail_medium |-> m.cover_image,
                        thumbnail_large |-> m.cover_image,
                        platforms |-> platform_data.value,
                        songlink_page_url |-> songlink_page.value,
                        duration_ms |-> m.duration_ms, isrc |-> m.isrc,
                        release_date |-> None, popularity |-> None,
                        preview_url |-> m.preview_url, spotify_id |-> spotify_id]]


(***************************************************************************)
(* The service as a state machine.  Nothing outlives a request: a handler  *)
(* runs when no request is in flight, and Deliver hands its answer to the  *)
(* client and drops the request's data.                                    *)
(***************************************************************************)
Idle == [op |-> "none"]
NoResponse == [status |-> 0]

ContentTypes == {"track", "album", "playlist"}

ServiceInit ==
  /\ request = Idle
  /\ calls = <<>>
  /\ response = NoResponse

CleanIdle ==
  /\ cs_in = <<>>
  /\ cs_out = <<>>

ScoreIdle ==
  /\ sc_in = <<<<>>, <<>>, <<>>>>
  /\ sc_out = <<>>

Init == ServiceInit /\ CleanIdle /\ ScoreIdle

Health ==
  /\ request = Idle
  /\ \E cat \in {Ok(<<>>)} \cup {Raise(e) : e \in SearchErrors} :
       /\ request' = [op |-> "health"]
       /\ calls' = <<[api |-> "search", q |-> "test", type |-> "track", limit |-> 1,
                      outcome |-> cat]>>
       /\ response' = health_check(cat)
  /\ UNCHANGED <<csVars, scVars>>

Search ==
  /\ request = Idle
  /\ \E query \in Queries, limit \in Limits :
       \E tr \in TrackSearchOutcomes(TrackLimit(limit)),
          al \in AlbumSearchOutcomes(AlbumLimit(limit)) :
         /\ request' = [op |-> "search", query |-> query, limit |-> limit]
         /\ calls' = SearchCalls(query, limit, tr, al)
         /\ response' = search_music(query, limit, tr, al)
  /\ UNCHANGED <<csVars, scVars>>

LinkCall(url, o) == [api |-> "songlink", url |-> url, outcome |-> o]

Match ==
  /\ request = Idle
  /\ \E content_type \in ContentTypes :
       \E cat \in IF content_type = "track" THEN TrackLookups ELSE AlbumLookups,
          link \in LinkOutcomes :
         /\ request' = [op |-> "match", spotify_id |-> "id1", content_type |-> content_type]
         /\ calls' = <<[api |-> IF content_type = "track" THEN "track" ELSE "album",
                        id |-> "id1", outcome |-> cat]>>
                       \o (IF cat.raised THEN <<>> ELSE <<LinkCall(cat.value.url, link)>>)
         /\ response' = match_across_platforms(content_type, cat, link)
  /\ UNCHANGED <<csVars, scVars>>

Landing ==
  /\ request = Idle
  /\ \E cat \in TrackLookups, link \in LinkOutcomes, page \in PageOutcomes :
       /\ request' = [op |-> "landing", spotify_id |-> "id1"]
       /\ calls' = <<[api |-> "track", id |-> "id1", outcome |-> cat]>>
                     \o (IF cat.raised THEN <<>>
                         ELSE <<LinkCall(cat.value.url, link), LinkCall(cat.value.url, page)>>)
       /\ response' = get_landing_page_data("id1", cat, link, page)
  /\ UNCHANGED <<csVars, scVars>>

Deliver ==
  /\ request # Idle
  /\ request' = Idle
  /\ calls' = <<>>
  /\ response' = NoResponse
  /\ UNCHANGED <<csVars, scVars>>

Next == Health \/ Search \/ Match \/ Landing \/ Deliver

Spec == Init /\ [][Next]_vars


(***************************************************************************)
(* clean_string on its own: the input is any string of up to MaxPieces     *)
(* pieces, and clean_string is applied to it, then to its own result.      *)
(***************************************************************************)
Pieces ==
  {<<"(", "f", "e", "a", "t">>,
   <<"(", "F", "E", "A", "T", ".">>,
   <<"(", "f", "e", "a", "t", "u", "r", "i", "n", "g">>,
   <<")">>,
   <<".">>,
   <<"\n">>,
   <<" ", "X">>}

CleanInputs == {Concat(ps) : ps \in UNION {[1..n -> Pieces] : n \in 0..MaxPieces}}

InitClean ==
  /\ ServiceInit
  /\ ScoreIdle
  /\ cs_in \in CleanInputs
  /\ cs_out = <<>>

ApplyClean ==
  /\ Len(cs_out) < MaxApply
  /\ cs_out' = Append(cs_out, clean_string(IF cs_out = <<>> THEN cs_in
                                            ELSE cs_out[Len(cs_out)]))
  /\ UNCHANGED <<cs_in, svcVars, scVars>>

SpecClean == InitClean /\ [][ApplyClean]_vars

(***************************************************************************)
(* calculate_relevance_score on its own, on every triple of ScoreStrings.  *)
(***************************************************************************)
ScoreStrings == {<<>>, <<" ">>, sAB, sB, sXB, sABfeat, sAB \o <<" ">> \o sXB}

InitScore ==
  /\ ServiceInit
  /\ CleanIdle
  /\ sc_in \in ScoreStrings \X ScoreStrings \X ScoreStrings
  /\ sc_out = <<>>

ApplyScore ==
  /\ sc_out = <<>>
  /\ sc_out' = <<calculate_relevance_score(sc_in[1], sc_in[2], sc_in[3])>>
  /\ UNCHANGED <<sc_in, svcVars, csVars>>

SpecScore == InitScore /\ [][ApplyScore]_vars


(***************************************************************************)
(* What the claims read from a state.                                      *)
(***************************************************************************)
SearchAnswered == request.op = "search" /\ response.status = 200
BothSearchesOk ==
  request.op = "search" /\ Len(calls) = 2
    /\ ~calls[1].outcome.raised /\ ~calls[2].outcome.raised
FoundTracks == calls[1].outcome.value
FoundAlbums == calls[2].outcome.value
Results == response.body.results

\* where the searches found the returned candidate m: the tracks first, each
\* kind in the provider's order
Discovery(m) ==
  IF m.content_type = "track"
  THEN CHOOSE i \in 1..Len(FoundTracks) : FoundTracks[i].id = m.spotify_id
  ELSE Len(FoundTracks)
         + (CHOOSE i \in 1..Len(FoundAlbums) : FoundAlbums[i].id = m.spotify_id)

\* the relevance of the returned candidate m: the query against the provider's
\* name and first artist
RelevanceOf(m) ==
  LET found == FoundTracks \o FoundAlbums
      o == found[Discovery(m)]
  IN Relevance(request.query, o.name, o.artists[1])

\* the candidate found at place d, as search_mixed returns it
FoundAt(d) ==
  IF d <= Len(FoundTracks) THEN TrackMetadata(FoundTracks[d])
  ELSE AlbumMetadata(FoundAlbums[d - Len(FoundTracks)])

\* m ranks ahead of n: higher relevance, or the same relevance and found earlier
RanksAhead(m, n) ==
  \/ RelevanceOf(m) > RelevanceOf(n)
  \/ /\ RelevanceOf(m) = RelevanceOf(n)
     /\ Discovery(m) < Discovery(n)

\* C1: the results of search_mixed are in non-increasing order of relevance, and
\* two results of equal relevance are in discovery order: tracks before albums,
\* and within a kind the provider's order.  The results are what the searches
\* found, and a candidate left out ranks behind every one returned, so the two
\* lists and the scores fix the answer.
C1_RankedStable ==
  SearchAnswered =>
    /\ \A i \in 1..Len(Results) : Results[i] = FoundAt(Discovery(Results[i]))
    /\ \A i, j \in 1..Len(Results) : i < j => RanksAhead(Results[i], Results[j])
    /\ \A d \in 1..(Len(FoundTracks) + Len(FoundAlbums)) :
         (\A i \in 1..Len(Results) : Discovery(Results[i]) # d) =>
           \A i \in 1..Len(Results) : RanksAhead(Results[i], FoundAt(d))

\* C1 witness: an answer where an album outranks a track, a track precedes an
\* album of the same relevance, and two tracks of the same relevance follow
\* each other
C1_Witness ==
  /\ SearchAnswered
  /\ \E i, j \in 1..Len(Results) :
       /\ i < j
       /\ Results[i].content_type = "album" /\ Results[j].content_type = "track"
       /\ RelevanceOf(Results[i]) > RelevanceOf(Results[j])
  /\ \E i, j \in 1..Len(Results) :
       /\ i < j
       /\ Results[i].content_type = "track" /\ Results[j].content_type = "album"
       /\ RelevanceOf(Results[i]) = RelevanceOf(Results[j])
  /\ \E i, j \in 1..Len(Results) :
       /\ i < j
       /\ Results[i].content_type = "track" /\ Results[j].content_type = "track"
       /\ RelevanceOf(Results[i]) = RelevanceOf(Results[j])

\* C2: for a limit >= 0, when both searches succeed search_mixed returns at most
\* limit candidates, exactly min(limit, tracks found + albums found).
C2_LengthIsMin ==
  (BothSearchesOk /\ request.limit >= 0) =>
    /\ response.status = 200
    /\ Len(Results) <= request.limit
    /\ Len(Results) = Min(request.limit, Len(FoundTracks) + Len(FoundAlbums))
    /\ response.body.total_results = Len(Results)

\* C2 witness: the searches found more than the limit, and the answer is cut
C2_Witness ==
  /\ BothSearchesOk
  /\ request.limit = 3
  /\ Len(FoundTracks) + Len(FoundAlbums) = 8
  /\ Len(Results) = 3

\* the search of this request that raised, if one did
SearchFailed ==
  request.op = "search"
    /\ (calls[1].outcome.raised \/ (Len(calls) = 2 /\ calls[2].outcome.raised))
FailedCause ==
  IF calls[1].outcome.raised THEN calls[1].outcome.exc ELSE calls[2].outcome.exc

\* C3: when either search fails the request fails as a whole: no list is
\* returned, and /search answers 500 with a detail that holds the cause.
C3_FailsAsWhole ==
  SearchFailed =>
    /\ response.status = 500
    /\ DOMAIN response = {"status", "detail"}
    /\ response.detail = "Search failed: " \o FailedCause

\* C3 witness: the track search found tracks and the album search failed
C3_Witness ==
  /\ request.op = "search"
  /\ Len(calls) = 2
  /\ ~calls[1].outcome.raised
  /\ Len(calls[1].outcome.value) > 0
  /\ calls[2].outcome.raised
  /\ response.status = 500


\* the calls of this request to the link provider that did not answer 200
FailedLinkCalls ==
  {i \in 1..Len(calls) : calls[i].api = "songlink" /\ LinkFailed(calls[i].outcome)}

\* C4: when the link provider answers another status than 200 or the call
\* fails, no resolver raises: get_platform_links returns the source URL under
\* spotify and nothing else, get_detailed_platform_data returns it as the
\* spotify platform's url and nothing else, and get_songlink_page_url returns
\* "https://song.link/" followed by it.
C4_ResolversFallBack ==
  \A i \in FailedLinkCalls :
    LET url == calls[i].url
        o == calls[i].outcome
        basic == get_platform_links(url, o)
        detailed == get_detailed_platform_data(url, o)
        page == get_songlink_page_url(url, o)
    IN /\ ~basic.raised
       /\ basic.value = [f \in DSPLinksFields |-> IF f = "spotify" THEN url ELSE None]
       /\ ~detailed.raised
       /\ detailed.value = [f \in DetailedFields |->
                              IF f = "spotify" THEN PlatformInfo(url, None) ELSE NoObject]
       /\ ~page.raised
       /\ page.value = "https://song.link/" \o url

\* the answer carries a platform link that is not None
UsableLink ==
  /\ response.status = 200
  /\ IF request.op = "match"
     THEN \E f \in DSPLinksFields : response.body.dsp_links[f] # None
     ELSE \E f \in DetailedFields :
            /\ response.body.platforms[f] # NoObject
            /\ response.body.platforms[f].url # None

\* C5: when the catalog lookup of /match or /landing succeeds, the request
\* ends in a success response with at least one usable platform link, whatever
\* the link provider did.
C5_LinkFailureAbsorbed ==
  (request.op \in {"match", "landing"} /\ ~calls[1].outcome.raised) => UsableLink

\* the links of a /match answer that the confidence score counts
ExtraPlatforms ==
  {f \in {"apple_music", "youtube_music", "deezer", "amazon_music", "tidal", "soundcloud"} :
     response.body.dsp_links[f] # None}

\* C6: the confidence score of a /match answer is min(0.95, 0.5 + 0.08 * n) for
\* n the links present among the six platforms other than spotify: 0.5 for
\* none, 0.95 for all six, always within [0.5, 0.95].
C6_Confidence ==
  (request.op = "match" /\ response.status = 200) =>
    LET n == Cardinality(ExtraPlatforms)
        c == response.body.confidence_score
    IN /\ c = Min(95, 50 + n * 8)
       /\ c >= 50 /\ c <= 95
       /\ n = 0 => c = 50
       /\ n = 6 => c = 95

\* C6 witness: a /match answer with the spotify link and all six others, where
\* 0.98 is clamped to 0.95
C6_Witness ==
  /\ request.op = "match"
  /\ response.status = 200
  /\ response.body.dsp_links.spotify # None
  /\ Cardinality(ExtraPlatforms) = 6
  /\ response.body.confidence_score = 95

\* C7: calculate_relevance_score returns a value in [0.0, 1.0] for every triple
\* of strings, the empty string included.
C7_ScoreInUnitRange ==
  \A i \in 1..Len(sc_out) : sc_out[i] >= 0 /\ sc_out[i] <= 1000

\* C7 witness: three empty strings, where the bonuses and fuzzy terms add up to
\* 1.4 and the score is 1.0
C7_Witness ==
  /\ sc_in = <<<<>>, <<>>, <<>>>>
  /\ RawScore(sc_in[1], sc_in[2], sc_in[3]) = 1400
  /\ sc_out = <<1000>>

\* C8: clean_string(clean_string(s)) = clean_string(s) for every string s.
C8_CleanIdempotent ==
  Len(cs_out) >= 2 => cs_out[2] = cs_out[1]

\* C9: search_mixed asks the track search for max(5, limit // 2) items and the
\* album search for max(3, limit // 3) items; 5 and 3 for the limit 10.
C9_RequestedLimits ==
  request.op = "search" =>
    /\ calls[1].type = "track"
    /\ calls[1].limit = Max(5, request.limit \div 2)
    /\ Len(calls) = 2 <=> ~calls[1].outcome.raised
    /\ Len(calls) = 2 =>
         /\ calls[2].type = "album"
         /\ calls[2].limit = Max(3, request.limit \div 3)
    /\ request.limit = 10 =>
         /\ calls[1].limit = 5
         /\ Len(calls) = 2 => calls[2].limit = 3

\* C9 witness: the limit 13, with 6 tracks and 4 albums asked for
C9_Witness ==
  /\ request.op = "search"
  /\ request.limit = 13
  /\ Len(calls) = 2
  /\ calls[1].limit = 6
  /\ calls[2].limit = 4

\* C10: GET /health answers 503 whenever the connection test to the catalog
\* provider fails, and a success response only when the provider was reached.
C10_Health503 ==
  request.op = "health" =>
    /\ calls[1].outcome.raised => response.status = 503
    /\ response.status = 200 => ~calls[1].outcome.raised


\* each search answered no more items than it was asked for
SearchesWithinLimits ==
  /\ BothSearchesOk
  /\ Len(FoundTracks) <= calls[1].limit
  /\ Len(FoundAlbums) <= calls[2].limit

\* C11: when each search answers no more items than it was asked for,
\* search_mixed returns at most max(5, limit // 2) + max(3, limit // 3)
\* candidates; so for a limit >= 9 the answer is strictly shorter than the
\* limit (at most 8 for the default 10), and an answer of limit entries has a
\* limit <= 8.
C11_CappedByRequests ==
  SearchesWithinLimits =>
    /\ response.status = 200
    /\ Len(Results) <= Max(5, request.limit \div 2) + Max(3, request.limit \div 3)
    /\ request.limit >= 9 => Len(Results) < request.limit
    /\ request.limit = 10 => Len(Results) <= 8
    /\ Len(Results) = request.limit => request.limit <= 8

\* C11 witness: the default limit 10, both searches answer all they were asked
\* for (5 tracks, 3 albums), and the answer has 8 entries
C11_Witness ==
  /\ SearchesWithinLimits
  /\ request.limit = 10
  /\ Len(FoundTracks) = 5
  /\ Len(FoundAlbums) = 3
  /\ Len(Results) = 8

=============================================================================
